---- MODULE Spec2Model ----
(***************************************************************************)
(* Model of src/app.py: the Shopify bulk uploader.                         *)
(*   - parse_zip_models and its helpers (archive -> model groups)          *)
(*   - ShopifyClient (as the class body binds it) against a small remote   *)
(*     store                                                               *)
(*   - the start-button run: setup, then the per-model batch loop          *)
(* Text is held as tuples of one-character strings so that strip, lower,   *)
(* split and endswith are computed rather than assumed.                    *)
(***************************************************************************)
EXTENDS Integers, Sequences, FiniteSets, TLC

VARIABLES
    pc,        \* position of the script / of the driver of a function check
    zf,        \* the uploaded archive: zf.infolist() in enumeration order
    models,    \* result of parse_zip_models(zf)
    fault,     \* the request the transport fails, and how (see ReqFails)
    store,     \* the remote shop: collections, products, collects
    hist,      \* ensure_collection calls made so far, with the store around each
    elems,     \* a template's variants or options, as handed to a scrub
    scrubbed,  \* what the scrub returned
    shop_domain, access_token,        \* sidebar: connection
    duplication_enabled,              \* sidebar: "Duplica da prodotto esistente"
    source_identifier,                \* sidebar: id or handle of the source product
    copy_source_collections,          \* sidebar: "Copia le collezioni"
    template_product,                 \* Optional[Dict]
    source_collection_ids,            \* List[int]
    collection_ids,                   \* Dict[str, int] as <<title, id>> in insertion order
    ti,                               \* titles of DEFAULT_COLLECTIONS gone through
    results,                          \* the result records
    idx,                              \* the batch loop's idx; 0 before the loop
    reqlog,                           \* every HTTP request the run has sent
    uncaught                          \* the exception that ended the script, or ""

\* ------------------------------------------------------------------ text

Upper == <<"A", "B", "C", "D", "E", "F", "G", "H", "I", "J", "K", "L", "M",
           "N", "O", "P", "Q", "R", "S", "T", "U", "V", "W", "X", "Y", "Z">>

Lowercase == <<"a", "b", "c", "d", "e", "f", "g", "h", "i", "j", "k", "l", "m",
               "n", "o", "p", "q", "r", "s", "t", "u", "v", "w", "x", "y", "z">>

Digits == <<"0", "1", "2", "3", "4", "5", "6", "7", "8", "9">>

\* position of each character in its alphabet
IndexOf(seq) == [c \in {seq[i] : i \in 1..Len(seq)} |-> CHOOSE i \in 1..Len(seq) : seq[i] = c]

UpperIndex == IndexOf(Upper)

LowercaseIndex == IndexOf(Lowercase)

DigitsIndex == IndexOf(Digits)

\* str.lower() on one character
Lower(c) == IF c \in DOMAIN UpperIndex THEN Lowercase[UpperIndex[c]] ELSE c

\* code point of a character: the order Python compares str by
Ord(c) ==
    IF c \in DOMAIN UpperIndex THEN 64 + UpperIndex[c]
    ELSE IF c \in DOMAIN LowercaseIndex THEN 96 + LowercaseIndex[c]
    ELSE IF c \in DOMAIN DigitsIndex THEN 47 + DigitsIndex[c]
    ELSE CASE c = " " -> 32 [] c = "-" -> 45 [] c = "." -> 46 [] c = "/" -> 47
           [] OTHER -> 0

StrLower(s) == [i \in 1..Len(s) |-> Lower(s[i])]

EndsWith(s, suf) ==
    /\ Len(suf) <= Len(s)
    /\ SubSeq(s, Len(s) - Len(suf) + 1, Len(s)) = suf

\* str.strip(): drop leading and trailing blanks
Strip(s) ==
    LET nonblank == {i \in 1..Len(s) : s[i] # " "}
        Min(S) == CHOOSE x \in S : \A y \in S : x <= y
        Max(S) == CHOOSE x \in S : \A y \in S : x >= y
    IN  IF nonblank = {} THEN <<>> ELSE SubSeq(s, Min(nonblank), Max(nonblank))

\* str.split("/")
RECURSIVE Split(_)
Split(s) ==
    LET cuts == {i \in 1..Len(s) : s[i] = "/"}
    IN  IF cuts = {}
        THEN <<s>>
        ELSE LET k == CHOOSE x \in cuts : \A y \in cuts : x <= y
             IN  <<SubSeq(s, 1, k - 1)>> \o Split(SubSeq(s, k + 1, Len(s)))

\* os.path.basename
Basename(s) == LET parts == Split(s) IN parts[Len(parts)]

\* s < t in Python's str order
StrLess(s, t) ==
    \/ \E k \in 1..Len(s) :
          /\ k <= Len(t)
          /\ \A j \in 1..(k - 1) : s[j] = t[j]
          /\ Ord(s[k]) < Ord(t[k])
    \/ /\ Len(s) < Len(t)
       /\ \A j \in 1..Len(s) : s[j] = t[j]

\* ------------------------------------------------------------ human_ts

IsLeap(y) == (y % 4 = 0 /\ y % 100 # 0) \/ y % 400 = 0

DaysInMonth(y, m) ==
    IF m = 2 THEN (IF IsLeap(y) THEN 29 ELSE 28)
    ELSE IF m \in {4, 6, 9, 11} THEN 30 ELSE 31

\* datetime(*dt_tuple) raises ValueError outside these ranges
DatetimeOk(dt) ==
    /\ dt[1] >= 1 /\ dt[1] <= 9999
    /\ dt[2] >= 1 /\ dt[2] <= 12
    /\ dt[3] >= 1 /\ dt[3] <= DaysInMonth(dt[1], dt[2])
    /\ dt[4] >= 0 /\ dt[4] <= 23
    /\ dt[5] >= 0 /\ dt[5] <= 59
    /\ dt[6] >= 0 /\ dt[6] <= 59

\* time.mktime(datetime(...).timetuple()) with the process in UTC
Mktime(dt) ==
    LET y   == IF dt[2] <= 2 THEN dt[1] - 1 ELSE dt[1]
        era == y \div 400
        yoe == y - era * 400
        mp  == IF dt[2] > 2 THEN dt[2] - 3 ELSE dt[2] + 9
        doy == (153 * mp + 2) \div 5 + dt[3] - 1
        doe == yoe * 365 + yoe \div 4 - yoe \div 100 + doy
        days == era * 146097 + doe - 719468
    IN  days * 86400 + dt[4] * 3600 + dt[5] * 60 + dt[6]

\* human_ts: the try body's value, or 0.0 from the except branch; it never
\* lets an exception out (raised is what reaches the caller)
human_ts(dt_tuple) ==
    IF DatetimeOk(dt_tuple)
    THEN [raised |-> FALSE, value |-> Mktime(dt_tuple)]
    ELSE [raised |-> FALSE, value |-> 0]

\* ------------------------------------------------------------ is_image

ImageExts ==
    { <<".", "j", "p", "g">>, <<".", "j", "p", "e", "g">>, <<".", "p", "n", "g">>,
      <<".", "g", "i", "f">>, <<".", "w", "e", "b", "p">>, <<".", "b", "m", "p">> }

is_image(filename) ==
    LET fname == StrLower(filename)
    IN  \E e \in ImageExts : EndsWith(fname, e)

\* ZipInfo.is_dir(): the entry's name ends with "/"
is_dir(info) == Len(info.filename) > 0 /\ info.filename[Len(info.filename)] = "/"

\* base64.b64encode(raw).decode("utf-8"): an injective encoding of the bytes
b64encode(raw) == <<"b64", raw>>

\* ---------------------------------------------------- parse_zip_models

\* the entries the first loop files under a folder
Grouped(archive) ==
    SelectSeq(archive, LAMBDA info :
        /\ ~is_dir(info)
        /\ is_image(info.filename)
        /\ Len(Split(info.filename)) >= 2)

FolderOf(info) == Strip(Split(info.filename)[1])

\* folders: dict folder -> [ZipInfo], keys in first-insertion order
FolderKeys(archive) ==
    LET g == Grouped(archive)
        first == {i \in 1..Len(g) : \A j \in 1..(i - 1) : FolderOf(g[j]) # FolderOf(g[i])}
        Nth(r) == CHOOSE i \in first : Cardinality({j \in first : j < i}) = r - 1
    IN  [r \in 1..Cardinality(first) |-> FolderOf(g[Nth(r)])]

FolderInfos(archive, folder) ==
    SelectSeq(Grouped(archive), LAMBDA info : FolderOf(info) = folder)

TsLess_NewestFirst(a, b) == human_ts(a.date_time).value > human_ts(b.date_time).value

\* key=lambda i: human_ts(i.date_time), compared ascending
TsLess(a, b) == human_ts(a.date_time).value < human_ts(b.date_time).value

NameLess(a, b) == StrLess(a.filename, b.filename)

\* the order of the key named: "ts" is human_ts(i.date_time), "name" i.filename
KeyLess(key, a, b) == IF key = "ts" THEN TsLess(a, b) ELSE NameLess(a, b)

\* sorted(seq, key=...): Python's sort is stable, so an element's rank is the
\* number of elements that are smaller, or equal and earlier in seq
StableSort(seq, key) ==
    LET n == Len(seq)
        Before(j, i) == \/ KeyLess(key, seq[j], seq[i])
                        \/ (~KeyLess(key, seq[i], seq[j]) /\ j < i)
        Rank(i) == Cardinality({j \in 1..n : Before(j, i)}) + 1
    IN  [r \in 1..n |-> seq[CHOOSE i \in 1..n : Rank(i) = r]]

\* the try/except around sorted(): the except branch runs iff a key raised
SortRaises(infos) == \E i \in 1..Len(infos) : human_ts(infos[i].date_time).raised

WarnAlpha == [kind |-> "alphabetical", found |-> 0]

WarnCount(n) == [kind |-> "count", found |-> n]

ExpectedImages == 2

CountMismatch_OnlyAbove(n) == n > ExpectedImages

\* "if len(img_infos) != 2"
CountMismatch(n) == n # ExpectedImages

\* img_infos[:2]
FirstTwo(s) == SubSeq(s, 1, IF Len(s) < ExpectedImages THEN Len(s) ELSE ExpectedImages)

\* enumerate(img_infos, start=1) building images_payload
ImagesPayload(img_infos) ==
    [k \in 1..Len(img_infos) |->
        [attachment |-> b64encode(img_infos[k].data),
         filename |-> Basename(img_infos[k].filename),
         position |-> k]]

\* one iteration of the loop over folders.items()
ModelGroup(folder, infos) ==
    LET infos_sorted == IF SortRaises(infos)
                        THEN StableSort(infos, "name")
                        ELSE StableSort(infos, "ts")
        w1 == IF SortRaises(infos) THEN <<WarnAlpha>> ELSE <<>>
        all == SelectSeq(infos_sorted, LAMBDA i : is_image(i.filename))
        w2 == IF CountMismatch(Len(all)) THEN w1 \o <<WarnCount(Len(all))>> ELSE w1
        img_infos == IF CountMismatch(Len(all)) THEN FirstTwo(all) ELSE all
    IN  [model |-> folder, images |-> ImagesPayload(img_infos), warnings |-> w2]

parse_zip_models(archive) ==
    LET keys == FolderKeys(archive)
    IN  [r \in 1..Len(keys) |-> ModelGroup(keys[r], FolderInfos(archive, keys[r]))]

\* ------------------------------------------------------- ShopifyClient

\* Optional[...]: None, or a value
Nothing == [some |-> FALSE]

Some(x) == [some |-> TRUE, v |-> x]

\* "variants or []" / "options or []"
OrEmpty(opt) == IF opt.some THEN opt.v ELSE <<>>

VariantDropKeys_KeepImageId ==
    {"id", "product_id", "admin_graphql_api_id", "position", "created_at", "updated_at"}

\* drop_keys of _scrub_variants
VariantDropKeys ==
    {"id", "product_id", "admin_graphql_api_id", "position", "created_at", "updated_at",
     "image_id"}

\* drop_keys of _scrub_options
OptionDropKeys == {"id", "product_id", "admin_graphql_api_id", "position"}

\* {k: v[k] for k in v.keys() if k not in drop_keys}
WithoutKeys(d, drop_keys) == [k \in (DOMAIN d) \ drop_keys |-> d[k]]

_scrub_variants(variants) ==
    LET vs == OrEmpty(variants)
    IN  [i \in 1..Len(vs) |-> WithoutKeys(vs[i], VariantDropKeys)]

_scrub_options(options) ==
    LET os == OrEmpty(options)
    IN  [i \in 1..Len(os) |-> WithoutKeys(os[i], OptionDropKeys)]

\* ---- the remote store and the transport

\* the request the oracle fails, and how: at = 0 fails none.  "HTTPError" is
\* raise_for_status() on a non-2xx answer, "ConnectionError" a transport
\* failure (timeout, reset) raised by the session call itself; a failed
\* request leaves the store as it was
ReqFails(n) == fault.at = n

\* a client call's outcome: exc = "none" and a value, or the exception
Ret(x, st, log) == [exc |-> "none", value |-> x, store |-> st, log |-> log]

Raise(kind, st, log) == [exc |-> kind, value |-> Nothing, store |-> st, log |-> log]

Req(verb, path, param, arg) == [verb |-> verb, path |-> path, param |-> param, arg |-> arg]

\* str truthiness / Optional[int] truthiness ("if cid:")
Truthy(opt) == opt.some /\ opt.v # 0

Frontpage == <<"f", "r", "o", "n", "t", "p", "a", "g", "e">>

HomeAliases ==
    { <<"h", "o", "m", "e", "p", "a", "g", "e">>,
      <<"h", "o", "m", "e", " ", "p", "a", "g", "e">>,
      Frontpage,
      <<"h", "o", "m", "e">> }

\* the handle the store derives from a title: lower case, blanks to dashes
Handleize(title) ==
    LET t == StrLower(Strip(title))
    IN  [i \in 1..Len(t) |-> IF t[i] = " " THEN "-" ELSE t[i]]

\* handles are unique in the store: a taken one gets a numeric suffix
NewHandle(st, title) ==
    LET taken(h) == \/ \E i \in 1..Len(st.custom) : st.custom[i].handle = h
                    \/ \E i \in 1..Len(st.smart) : st.smart[i].handle = h
        free == {n \in 0..(Len(st.custom) + Len(st.smart)) :
                    ~taken([base |-> Handleize(title), suffix |-> n])}
    IN  [base |-> Handleize(title),
         suffix |-> CHOOSE n \in free : \A m \in free : n <= m]

\* data[0]["id"] if data else None
FirstId(data) == IF Len(data) > 0 THEN Some(data[1].id) ELSE Nothing

_find_custom_collection(st, title, n) ==
    LET rq == Req("GET", "custom_collections", "title", title)
    IN  IF ReqFails(n + 1)
        THEN Raise(fault.kind, st, <<rq>>)
        ELSE Ret(FirstId(SelectSeq(st.custom, LAMBDA c : c.title = title)), st, <<rq>>)

_find_smart_collection(st, title, n) ==
    LET rq == Req("GET", "smart_collections", "title", title)
    IN  IF ReqFails(n + 1)
        THEN Raise(fault.kind, st, <<rq>>)
        ELSE Ret(FirstId(SelectSeq(st.smart, LAMBDA c : c.title = title)), st, <<rq>>)

IsHomeAlias_CaseSensitive(title) == Strip(title) \in HomeAliases

\* "if title.strip().lower() in {...}"
IsHomeAlias(title) == StrLower(Strip(title)) \in HomeAliases

\* the frontpage probe of ensure_collection: the id found, or Nothing
FrontpageProbe(st, title, n) ==
    LET rq == Req("GET", "custom_collections", "handle", Frontpage)
        data == SelectSeq(st.custom, LAMBDA c : c.handle = [base |-> Frontpage, suffix |-> 0])
    IN  IF ~IsHomeAlias(title) THEN Ret(Nothing, st, <<>>)
        ELSE IF ReqFails(n + 1) THEN Raise(fault.kind, st, <<rq>>)
        ELSE Ret(FirstId(data), st, <<rq>>)

\* POST custom_collections.json {"title": title}
CreateCustomCollection(st, title, n) ==
    LET rq == Req("POST", "custom_collections", "title", title)
        c == [id |-> st.nextId, title |-> title, handle |-> NewHandle(st, title)]
    IN  IF ReqFails(n + 1)
        THEN Raise(fault.kind, st, <<rq>>)
        ELSE Ret(Some(c.id),
                 [st EXCEPT !.custom = Append(@, c), !.nextId = @ + 1], <<rq>>)

\* prefix a call's request log with the requests sent before it
After(log, r) == [r EXCEPT !.log = log \o @]

CustomLookupResult_NotFound(st, title, n, found) ==
    After(found.log, CreateCustomCollection(st, title, n + 1))

\* "cid = self._find_custom_collection(title); if cid: return cid", then the
\* creation
CustomLookupResult(st, title, n, found) ==
    IF found.exc # "none" \/ Truthy(found.value) THEN found
    ELSE After(found.log, CreateCustomCollection(st, title, n + 1))

\* "cid = self._find_smart_collection(title); if cid: return cid", then the
\* custom lookup
SmartLookupResult(st, title, n, smart) ==
    IF smart.exc # "none" \/ Truthy(smart.value) THEN smart
    ELSE After(smart.log,
               CustomLookupResult(st, title, n + 1, _find_custom_collection(st, title, n + 1)))

\* "if data: return data[0]['id']" after the frontpage probe, then the lookups
\* by title
ProbeResult(st, title, n, probe) ==
    IF probe.exc # "none" \/ probe.value.some THEN probe
    ELSE After(probe.log,
               SmartLookupResult(st, title, n + Len(probe.log),
                                 _find_smart_collection(st, title, n + Len(probe.log))))

ensure_collection(st, title, n) == ProbeResult(st, title, n, FrontpageProbe(st, title, n))

\* ---- products and collects

\* GET products/{pid}.json: 404 is None, any other failure raises
get_product_by_id(st, pid, n) ==
    LET rq == Req("GET", "products", "id", pid)
        arr == SelectSeq(st.products, LAMBDA q : q.id = pid)
    IN  IF ReqFails(n + 1) THEN Raise(fault.kind, st, <<rq>>)
        ELSE Ret(IF Len(arr) > 0 THEN Some(arr[1]) ELSE Nothing, st, <<rq>>)

\* GET products.json?handle=...&limit=1
get_product_by_handle(st, handle, n) ==
    LET rq == Req("GET", "products", "handle", handle)
        arr == SelectSeq(st.products, LAMBDA q : q.handle = handle)
    IN  IF ReqFails(n + 1) THEN Raise(fault.kind, st, <<rq>>)
        ELSE Ret(IF Len(arr) > 0 THEN Some(arr[1]) ELSE Nothing, st, <<rq>>)

\* str.isdigit()
IsDigit(s) == Len(s) > 0 /\ \A i \in 1..Len(s) : s[i] \in DOMAIN DigitsIndex

\* int(str) of a digit string
RECURSIVE ToInt(_)
ToInt(s) ==
    IF Len(s) = 0 THEN 0
    ELSE 10 * ToInt(SubSeq(s, 1, Len(s) - 1)) + (DigitsIndex[s[Len(s)]] - 1)

get_product_by_id_or_handle(st, ident, n) ==
    IF IsDigit(Strip(ident))
    THEN get_product_by_id(st, ToInt(Strip(ident)), n)
    ELSE get_product_by_handle(st, Strip(ident), n)

CollectsPageLimit == 250

\* GET collects.json?product_id=...&limit=250: one page of collection ids
list_product_collections(st, product_id, n) ==
    LET rq == Req("GET", "collects", "product_id", product_id)
        mine == SelectSeq(st.collects, LAMBDA c : c.product_id = product_id)
        page == SubSeq(mine, 1, IF Len(mine) < CollectsPageLimit THEN Len(mine)
                                ELSE CollectsPageLimit)
    IN  IF ReqFails(n + 1) THEN Raise(fault.kind, st, <<rq>>)
        ELSE Ret([i \in 1..Len(page) |-> page[i].collection_id], st, <<rq>>)

\* POST collects.json: the store adds the collect, duplicates included
add_product_to_collection(st, product_id, collection_id, n) ==
    LET c == [product_id |-> product_id, collection_id |-> collection_id]
        rq == Req("POST", "collects", "collect", c)
    IN  IF ReqFails(n + 1) THEN Raise(fault.kind, st, <<rq>>)
        ELSE Ret(Some(c), [st EXCEPT !.collects = Append(@, c)], <<rq>>)

\* POST products.json with the given "product" body: the store adds id,
\* handle and status and answers with the product
PostProduct(st, product_body, n) ==
    LET rq == Req("POST", "products", "product", product_body)
        made == product_body @@ [id |-> st.nextId,
                                 handle |-> Handleize(product_body.title),
                                 status |-> "active"]
    IN  IF ReqFails(n + 1) THEN Raise(fault.kind, st, <<rq>>)
        ELSE Ret(made, [st EXCEPT !.products = Append(@, made), !.nextId = @ + 1], <<rq>>)

\* template.get(key): the value, or None
Get(d, key) == IF key \in DOMAIN d THEN Some(d[key]) ELSE Nothing

\* body of "def create_product(self, title, body_html, images_payload, template=None)"
create_product_with_template(st, kw, n) ==
    LET base == [title |-> kw.title, body_html |-> kw.body_html, images |-> kw.images_payload]
        t == kw.template
        product_body ==
            IF t.some
            THEN base @@ [vendor |-> Get(t.v, "vendor"),
                          product_type |-> Get(t.v, "product_type"),
                          tags |-> Get(t.v, "tags"),
                          options |-> _scrub_options(Get(t.v, "options")),
                          variants |-> _scrub_variants(Get(t.v, "variants"))]
            ELSE base
    IN  PostProduct(st, product_body, n)

\* body of "def create_product(self, title, body_html, images_payload)"
create_product_plain(st, kw, n) ==
    PostProduct(st, [title |-> kw.title, body_html |-> kw.body_html,
                     images |-> kw.images_payload], n)

\* the two "def create_product" statements of the class body, in source order
CreateProductDefs ==
    << [line |-> 211, params |-> {"title", "body_html", "images_payload", "template"}],
       [line |-> 281, params |-> {"title", "body_html", "images_payload"}] >>

BoundCreateProduct_First == CreateProductDefs[1]

\* a class body is executed top to bottom: the later def rebinds the name
BoundCreateProduct == CreateProductDefs[Len(CreateProductDefs)]

\* client.create_product(**kw): a keyword the bound function does not take
\* raises TypeError before its body runs
create_product(st, kw, n) ==
    IF ~((DOMAIN kw) \subseteq BoundCreateProduct.params)
    THEN Raise("TypeError", st, <<>>)
    ELSE IF BoundCreateProduct.line = 211
    THEN create_product_with_template(st, kw, n)
    ELSE create_product_plain(st, kw, n)

\* ---- the script from the start button on

DESCRIPTION_HTML == "Il desiderio di privacy ... Originalita garantita!"

TitlePrefix ==
    <<"S", "O", "L", "A", "R", " ", "S", "C", "R", "E", "E", "N", "(R)", " ",
      "P", "e", "l", "l", "i", "c", "o", "l", "e", " ",
      "D", "e", "c", "o", "r", "a", "t", "i", "v", "e", " ", "-", " ">>

T_Homepage == <<"H", "o", "m", "e", "p", "a", "g", "e">>
T_Decorative == <<"D", "e", "c", "o", "r", "a", "t", "i", "v", "e">>
T_Pellicole ==
    <<"P", "e", "l", "l", "i", "c", "o", "l", "e", " ", "p", "e", "r", " ",
      "V", "e", "t", "r", "i">>

DEFAULT_COLLECTIONS == <<T_Homepage, T_Pellicole, T_Decorative>>

\* ", ".join(DEFAULT_COLLECTIONS)
CollezioniSummary == "Homepage, Pellicole per Vetri, Decorative"

\* the collections a new product is attached to
AttachTargets ==
    IF duplication_enabled /\ copy_source_collections /\ Len(source_collection_ids) > 0
    THEN source_collection_ids
    ELSE [k \in 1..Len(collection_ids) |-> collection_ids[k][2]]

\* the for loop over the target ids: the first failing call ends it
RECURSIVE AttachAll(_, _, _, _)
AttachRest(pid, cids, n, one) ==
    IF one.exc # "none" THEN one
    ELSE After(one.log, AttachAll(one.store, pid, Tail(cids), n + 1))

AttachAll(st, pid, cids, n) ==
    IF Len(cids) = 0 THEN Ret(Nothing, st, <<>>)
    ELSE AttachRest(pid, cids, n, add_product_to_collection(st, pid, Head(cids), n))

\* results.append({...}) of the try block
SuccessRecord(m, product) ==
    [Modello |-> m.model, ProductID |-> Some(product.id), Titolo |-> product.title,
     Handle |-> Some(product.handle), Status |-> product.status,
     Collezioni |-> CollezioniSummary, Errore |-> Nothing]

\* results.append({...}) of the except block
ErrorRecord(m, exc) ==
    [Modello |-> m.model, ProductID |-> Nothing, Titolo |-> TitlePrefix \o m.model,
     Handle |-> Nothing, Status |-> "ERRORE", Collezioni |-> CollezioniSummary,
     Errore |-> Some([error |-> exc])]

\* the keyword arguments of the loop's create_product call
CreateArgs(m) ==
    [title |-> TitlePrefix \o m.model,
     body_html |-> IF duplication_enabled /\ template_product.some
                   THEN Get(template_product.v, "body_html")
                   ELSE Some(DESCRIPTION_HTML),
     images_payload |-> m.images,
     template |-> IF duplication_enabled THEN template_product ELSE Nothing]

\* the try block once the attach loop has run
Attached(m, made, att) ==
    IF att.exc # "none" THEN After(made.log, att)
    ELSE Ret(SuccessRecord(m, made.value), att.store, made.log \o att.log)

\* the try block once create_product has returned or raised
Created(m, n, made) ==
    IF made.exc # "none" THEN made
    ELSE Attached(m, made,
                  AttachAll(made.store, made.value.id, AttachTargets, n + Len(made.log)))

\* the try block of one iteration: the success record, or what was raised
TryCreateAndAttach(st, m, n) == Created(m, n, create_product(st, CreateArgs(m), n))

\* "except requests.HTTPError" of the batch loop
LoopCatches(exc) == exc = "HTTPError"

\* "except requests.HTTPError" around ensure_collection
SetupCatches(exc) == exc = "HTTPError"

\* the except clause applied to what the try block did
Handled(m, t) ==
    IF t.exc # "none" /\ LoopCatches(t.exc)
    THEN Ret(ErrorRecord(m, t.exc), t.store, t.log)
    ELSE t

\* one iteration of the batch loop: a record to append, or an exception
\* that leaves the loop
LoopIteration(st, m, n) == Handled(m, TryCreateAndAttach(st, m, n))

AfterCollectionError_NoStop(last) == IF last THEN "loop" ELSE "collections"

\* st.error(...); st.stop() in the except branch of the collection setup
AfterCollectionError(last) == "stopped"

\* "disabled=not (shop_domain and access_token)"
ButtonEnabled == shop_domain # "" /\ access_token # ""

\* ------------------------------------------------ archives to check with

MaxEntries == 3

T_invalid == <<2021, 0, 0, 0, 0, 0>>
T_feb29 == <<2020, 2, 29, 10, 0, 0>>
T_mar01 == <<2020, 3, 1, 9, 0, 0>>

\* the entries an archive is drawn from: [name, date_time]
A_a == <<"A", "/", "a", ".", "j", "p", "g">>
A_b == <<"A", "/", "b", ".", "J", "P", "G">>

EntryHeaders ==
    { <<A_a, T_invalid>>, <<A_a, T_feb29>>,
      <<A_b, T_invalid>>, <<A_b, T_feb29>>, <<A_b, T_mar01>>,
      <<<<" ", "A", "/", "a", ".", "j", "p", "g">>, T_mar01>>,
      <<<<"B", "/", "a", ".", "j", "p", "g">>, T_feb29>>,
      <<<<"A", "/", "n", ".", "t", "x", "t">>, T_feb29>>,
      <<<<"a", ".", "j", "p", "g">>, T_feb29>>,
      <<<<"A", "/">>, T_feb29>> }

\* the archives of up to max entries; the bytes of entry i are i, so that an
\* image payload names the entry it was read from
Archives(max) ==
    UNION { { [i \in 1..n |-> [filename |-> h[i][1], date_time |-> h[i][2], data |-> i]] :
                h \in [1..n -> EntryHeaders] } :
            n \in 0..max }

NoFault == [at |-> 0, kind |-> "HTTPError"]

EmptyStore == [custom |-> <<>>, smart |-> <<>>, products |-> <<>>, collects |-> <<>>, nextId |-> 1]

ZipIdle == zf = <<>> /\ models = <<>>

ClientIdle == fault = NoFault /\ store = EmptyStore /\ hist = <<>>

UiIdle ==
    /\ shop_domain = "" /\ access_token = ""
    /\ duplication_enabled = FALSE /\ source_identifier = <<>>
    /\ copy_source_collections = FALSE

RunIdle ==
    /\ template_product = Nothing /\ source_collection_ids = <<>>
    /\ collection_ids = <<>> /\ ti = 0 /\ results = <<>> /\ idx = 0
    /\ reqlog = <<>> /\ uncaught = ""

uiVars ==
    <<shop_domain, access_token, duplication_enabled, source_identifier,
      copy_source_collections>>

runVars ==
    <<template_product, source_collection_ids, collection_ids, ti, results, idx,
      reqlog, uncaught>>

ScrubIdle == elems = Nothing /\ scrubbed = <<>>

vars == <<pc, zf, models, fault, store, hist, elems, scrubbed, uiVars, runVars>>

\* ---- parse_zip_models on every archive

InitZip ==
    /\ zf \in Archives(MaxEntries)
    /\ models = <<>>
    /\ pc = "uploaded"
    /\ ClientIdle
    /\ ScrubIdle
    /\ UiIdle
    /\ RunIdle

Parse ==
    /\ pc = "uploaded"
    /\ models' = parse_zip_models(zf)
    /\ pc' = "parsed"
    /\ UNCHANGED <<zf, fault, store, hist, elems, scrubbed, uiVars, runVars>>

NextZip == Parse

SpecZip == InitZip /\ [][NextZip]_vars

\* ---- the scrubs on every shape of element

MaxElems == 2

AllKeys ==
    {"id", "product_id", "admin_graphql_api_id", "position", "created_at", "updated_at",
     "image_id", "name", "price"}

\* a variant or option dict holding the given keys
Elem(keys, tag) == [k \in keys |-> tag]

FewElems ==
    { Elem(K, t) : K \in {AllKeys, {"name", "price"}, {"id", "name"}, {"created_at"}},
                   t \in 1..2 }

ScrubInputs ==
    {Nothing, Some(<<>>)}
      \cup { Some(<<Elem(K, 1)>>) : K \in SUBSET AllKeys }
      \cup UNION { { Some(l) : l \in [1..n -> FewElems] } : n \in 2..MaxElems }

InitScrub ==
    /\ elems \in ScrubInputs
    /\ scrubbed = <<>>
    /\ pc = "scrub_input"
    /\ ZipIdle
    /\ ClientIdle
    /\ UiIdle
    /\ RunIdle

ScrubVariants ==
    /\ pc = "scrub_input"
    /\ scrubbed' = _scrub_variants(elems)
    /\ pc' = "scrubbed_variants"
    /\ UNCHANGED <<zf, models, fault, store, hist, elems, uiVars, runVars>>

ScrubOptions ==
    /\ pc = "scrub_input"
    /\ scrubbed' = _scrub_options(elems)
    /\ pc' = "scrubbed_options"
    /\ UNCHANGED <<zf, models, fault, store, hist, elems, uiVars, runVars>>

NextScrub == ScrubVariants \/ ScrubOptions

SpecScrub == InitScrub /\ [][NextScrub]_vars

\* ---- ensure_collection called again and again on one store

MaxCalls == 2

T_HOME_padded == <<" ", "H", "O", "M", "E", " ">>
T_Frontpage == <<"F", "r", "o", "n", "t", "p", "a", "g", "e">>
T_HomePage == <<"H", "o", "m", "e", " ", "p", "a", "g", "e">>

EnsureTitles == {T_Homepage, T_HOME_padded, T_Frontpage, T_Decorative, T_Pellicole}

Coll(id, title, base, suffix) ==
    [id |-> id, title |-> title, handle |-> [base |-> base, suffix |-> suffix]]

\* collections a shop may hold at the start
C_frontpage == Coll(1, T_HomePage, Frontpage, 0)
C_homepage == Coll(2, T_Homepage, Handleize(T_Homepage), 0)
C_decorative == Coll(3, T_Decorative, Handleize(T_Decorative), 0)
S_homepage == Coll(4, T_Homepage, Handleize(T_Homepage), 1)
S_decorative == Coll(5, T_Decorative, Handleize(T_Decorative), 1)

\* the subsequences of a sequence: every choice of which items a shop holds
SubSeqs(seq) ==
    { SelectSeq(seq, LAMBDA c : c \in keep) : keep \in SUBSET {seq[i] : i \in 1..Len(seq)} }

ShopsOf(customs, smarts, products, collects) ==
    { [custom |-> c, smart |-> m, products |-> products, collects |-> k, nextId |-> 10] :
        c \in customs, m \in smarts, k \in collects }

InitEnsure ==
    /\ store \in ShopsOf(SubSeqs(<<C_frontpage, C_homepage, C_decorative>>),
                         SubSeqs(<<S_homepage, S_decorative>>), <<>>, {<<>>})
    /\ hist = <<>>
    /\ fault = NoFault
    /\ pc = "ensure"
    /\ ZipIdle
    /\ ScrubIdle
    /\ UiIdle
    /\ RunIdle

CallEnsure ==
    /\ pc = "ensure"
    /\ Len(hist) < MaxCalls
    /\ \E title \in EnsureTitles :
          LET r == ensure_collection(store, title, 0)
          IN  /\ hist' = Append(hist, [title |-> title, before |-> store, exc |-> r.exc,
                                       value |-> r.value, log |-> r.log, after |-> r.store])
              /\ store' = r.store
    /\ UNCHANGED <<pc, zf, models, fault, elems, scrubbed, uiVars, runVars>>

NextEnsure == CallEnsure

SpecEnsure == InitEnsure /\ [][NextEnsure]_vars

\* ---- the script: upload, start button, setup, batch loop

MaxModels == 2

MaxFaultAt == 6

\* an archive of n folders A, B, ... of two images each
RunArchive(n) ==
    [i \in 1..(2 * n) |->
        [filename |-> <<Upper[(i + 1) \div 2], "/", IF i % 2 = 1 THEN "a" ELSE "b",
                        ".", "j", "p", "g">>,
         date_time |-> IF i % 2 = 1 THEN T_feb29 ELSE T_mar01,
         data |-> i]]

H_aurora == <<"a", "u", "r", "o", "r", "a">>

\* the product a duplication run may name as its source
P_aurora ==
    [id |-> 7, title |-> <<"A", "u", "r", "o", "r", "a">>, handle |-> H_aurora,
     body_html |-> "<p>Aurora</p>", vendor |-> "SOLAR SCREEN", product_type |-> "Pellicola",
     tags |-> "decorative", status |-> "active", images |-> <<>>,
     options |-> << [id |-> 71, product_id |-> 7, name |-> "Formato", position |-> 1] >>,
     variants |-> << [id |-> 72, product_id |-> 7, admin_graphql_api_id |-> "gid/72",
                      position |-> 1, created_at |-> "2024", updated_at |-> "2025",
                      image_id |-> 73, title |-> "Rotolo", price |-> "10.00"] >>]

SourceIdents == {<<>>, <<"7">>, <<"9">>, <<" ", "a", "u", "r", "o", "r", "a">>, <<"n", "o">>}

RunShops ==
    ShopsOf({<<>>, <<C_frontpage, C_decorative>>},
            {<<>>, <<S_decorative>>},
            <<P_aurora>>,
            {<<>>, <<[product_id |-> 7, collection_id |-> 1],
                     [product_id |-> 7, collection_id |-> 5]>>})

Faults ==
    {NoFault} \cup { [at |-> n, kind |-> k] : n \in 1..MaxFaultAt,
                                               k \in {"HTTPError", "ConnectionError"} }

Init ==
    /\ pc = "uploaded"
    /\ zf \in {RunArchive(n) : n \in 0..MaxModels}
    /\ models = <<>>
    /\ fault = NoFault
    /\ store \in RunShops
    /\ hist = <<>>
    /\ ScrubIdle
    /\ \E c \in {<<"", "shpat">>, <<"my-store.myshopify.com", "">>,
                  <<"my-store.myshopify.com", "shpat">>} :
          shop_domain = c[1] /\ access_token = c[2]
    /\ duplication_enabled \in BOOLEAN
    /\ source_identifier \in (IF duplication_enabled THEN SourceIdents ELSE {<<>>})
    /\ copy_source_collections \in (IF duplication_enabled THEN BOOLEAN ELSE {FALSE})
    /\ RunIdle

\* the start button pressed: the credentials check and the client; from here
\* on the transport fails the request that fault names
Start ==
    /\ pc = "parsed"
    /\ Len(models) > 0
    /\ ButtonEnabled
    /\ pc' = IF ~(shop_domain # "" /\ access_token # "") THEN "stopped" ELSE "template"
    /\ fault' \in Faults
    /\ UNCHANGED <<zf, models, store, hist, elems, scrubbed, uiVars, runVars>>

\* "if duplication_enabled:" the source product and its collections
ResolveTemplate ==
    /\ pc = "template"
    /\ \E got \in {IF duplication_enabled /\ Len(source_identifier) > 0
                   THEN get_product_by_id_or_handle(store, source_identifier, Len(reqlog))
                   ELSE Ret(Nothing, store, <<>>)} :
       \E cols \in {IF got.exc = "none" /\ got.value.some /\ copy_source_collections
                       /\ Truthy(Get(got.value.v, "id"))
                    THEN list_product_collections(store, got.value.v.id,
                                                  Len(reqlog) + Len(got.log))
                    ELSE Ret(<<>>, store, <<>>)} :
          /\ reqlog' = reqlog \o got.log \o cols.log
          /\ pc' = IF ~duplication_enabled THEN "collections"
                   ELSE IF Len(source_identifier) = 0 THEN "stopped"
                   ELSE IF got.exc # "none" THEN "crashed"
                   ELSE IF ~got.value.some THEN "stopped"
                   ELSE IF cols.exc # "none" THEN "crashed"
                   ELSE IF copy_source_collections THEN "loop"
                   ELSE "collections"
          /\ uncaught' = IF got.exc # "none" THEN got.exc
                         ELSE IF cols.exc # "none" THEN cols.exc
                         ELSE uncaught
          /\ template_product' = IF got.exc = "none" THEN got.value ELSE template_product
          /\ source_collection_ids' = IF cols.exc = "none" THEN cols.value
                                      ELSE source_collection_ids
    /\ UNCHANGED <<zf, models, fault, store, hist, elems, scrubbed, uiVars,
                   collection_ids, ti, results, idx>>

\* one turn of "for title in DEFAULT_COLLECTIONS"
EnsureNext ==
    /\ pc = "collections"
    /\ \E r \in {ensure_collection(store, DEFAULT_COLLECTIONS[ti + 1], Len(reqlog))} :
          /\ ti' = ti + 1
          /\ store' = r.store
          /\ reqlog' = reqlog \o r.log
          /\ collection_ids' = IF r.exc = "none"
                               THEN Append(collection_ids,
                                           <<DEFAULT_COLLECTIONS[ti + 1], r.value.v>>)
                               ELSE collection_ids
          /\ pc' = IF r.exc = "none"
                   THEN (IF ti + 1 = Len(DEFAULT_COLLECTIONS) THEN "loop" ELSE "collections")
                   ELSE IF SetupCatches(r.exc)
                   THEN AfterCollectionError(ti + 1 = Len(DEFAULT_COLLECTIONS))
                   ELSE "crashed"
          /\ uncaught' = IF r.exc # "none" /\ ~SetupCatches(r.exc) THEN r.exc ELSE uncaught
    /\ UNCHANGED <<zf, models, fault, hist, elems, scrubbed, uiVars,
                   template_product, source_collection_ids, results, idx>>

\* one iteration of "for idx, m in enumerate(models, start=1)"; the last one
\* falls through to st.success and the results table
ProcessModel ==
    /\ pc = "loop"
    /\ \E it \in {LoopIteration(store, models[idx + 1], Len(reqlog))} :
          /\ idx' = idx + 1
          /\ store' = it.store
          /\ reqlog' = reqlog \o it.log
          /\ results' = IF it.exc = "none" THEN Append(results, it.value) ELSE results
          /\ pc' = IF it.exc # "none" THEN "crashed"
                   ELSE IF idx + 1 = Len(models) THEN "done"
                   ELSE "loop"
          /\ uncaught' = IF it.exc # "none" THEN it.exc ELSE uncaught
    /\ UNCHANGED <<zf, models, fault, hist, elems, scrubbed, uiVars,
                   template_product, source_collection_ids, collection_ids, ti>>

Next == Parse \/ Start \/ ResolveTemplate \/ EnsureNext \/ ProcessModel

Spec == Init /\ [][Next]_vars

\* ------------------------------------------------ claims on the extractor

\* archive indices of the image entries that belong to a folder
RawOf(folder) ==
    {i \in 1..Len(zf) :
        /\ ~is_dir(zf[i])
        /\ is_image(zf[i].filename)
        /\ Len(Split(zf[i].filename)) >= 2
        /\ FolderOf(zf[i]) = folder}

\* the archive index an image payload was read from
SrcOf(img) == img.attachment[2]

KeptOf(g) == {SrcOf(g.images[k]) : k \in 1..Len(g.images)}

KeyOf(i) == human_ts(zf[i].date_time).value

\* entry j precedes entry i in the order the group was sorted by
SortsBefore(j, i) == KeyOf(j) < KeyOf(i) \/ (KeyOf(j) = KeyOf(i) /\ j < i)

HasCountWarning(g) == \E k \in 1..Len(g.warnings) : g.warnings[k].kind = "count"

\* a < b for two 6-field date-times, field by field (chronological order)
DtLess(a, b) ==
    \E k \in 1..6 : (\A j \in 1..(k - 1) : a[j] = b[j]) /\ a[k] < b[k]

\* C8: every model group holds at most 2 images; a folder with a number of
\* images other than 2 carries the image-count warning (stating that number)
\* and a folder with exactly 2 carries none; with more than 2 images the kept
\* ones are the first 2 of the sorted order.
C8_AtMostTwoWithWarning ==
    pc = "parsed" =>
        \A r \in 1..Len(models) :
            LET g == models[r]
                raw == RawOf(g.model)
                n == Cardinality(raw)
            IN  /\ Len(g.images) <= 2
                /\ Len(g.images) = (IF n < 2 THEN n ELSE 2)
                /\ Cardinality(KeptOf(g)) = Len(g.images)
                /\ KeptOf(g) \subseteq raw
                /\ (n # 2) <=> HasCountWarning(g)
                /\ \A k \in 1..Len(g.warnings) :
                      g.warnings[k].kind = "count" => g.warnings[k].found = n
                /\ \A i \in KeptOf(g) : \A j \in raw \ KeptOf(g) : SortsBefore(i, j)

\* a folder of 3 images was cut to 2 with a warning, next to ones without
C8_Witness ==
    /\ pc = "parsed"
    /\ \E r \in 1..Len(models) :
          /\ Cardinality(RawOf(models[r].model)) = 3
          /\ Len(models[r].images) = 2
          /\ HasCountWarning(models[r])

\* C9: within every model group the positions are exactly 1..k in sequence,
\* and the images follow ascending modification time (oldest first), entries
\* of equal time staying in the archive's enumeration order.  The order is
\* that of human_ts, which for convertible date-times is chronological.
C9_PositionsFollowTimestamps ==
    pc = "parsed" =>
        \A r \in 1..Len(models) :
            LET g == models[r]
            IN  /\ \A k \in 1..Len(g.images) : g.images[k].position = k
                /\ \A p, q \in 1..Len(g.images) :
                      p < q =>
                        LET i == SrcOf(g.images[p])
                            j == SrcOf(g.images[q])
                        IN  /\ SortsBefore(i, j)
                            /\ (DatetimeOk(zf[i].date_time) /\ DatetimeOk(zf[j].date_time))
                                  => /\ ~DtLess(zf[j].date_time, zf[i].date_time)
                                     /\ (zf[i].date_time = zf[j].date_time => i < j)

\* a group of two datable images whose older one comes later in the archive
C9_Witness ==
    /\ pc = "parsed"
    /\ \E r \in 1..Len(models) :
          /\ Len(models[r].images) = 2
          /\ LET i == SrcOf(models[r].images[1])
                 j == SrcOf(models[r].images[2])
             IN  /\ j < i
                 /\ DtLess(zf[i].date_time, zf[j].date_time)
                 /\ DatetimeOk(zf[i].date_time)

\* C10: when the date-times of a group's entries cannot be converted, the
\* group's images are in ascending filename order and the group carries the
\* "alphabetical ordering used" warning.
C10_AlphabeticalFallback ==
    pc = "parsed" =>
        \A r \in 1..Len(models) :
            LET g == models[r]
            IN  (\A i \in RawOf(g.model) : ~DatetimeOk(zf[i].date_time)) =>
                    /\ \E k \in 1..Len(g.warnings) : g.warnings[k] = WarnAlpha
                    /\ \A p, q \in 1..Len(g.images) :
                          p < q => ~StrLess(zf[SrcOf(g.images[q])].filename,
                                            zf[SrcOf(g.images[p])].filename)

\* --------------------------------------------------- claims on the scrubs

\* the scrub's result is its input with exactly the keys of drop removed
RemovesExactly(drop) ==
    LET input == IF elems.some THEN elems.v ELSE <<>>
    IN  /\ Len(scrubbed) = Len(input)
        /\ \A i \in 1..Len(input) :
              /\ DOMAIN scrubbed[i] = (DOMAIN input[i]) \ drop
              /\ \A k \in DOMAIN scrubbed[i] : scrubbed[i][k] = input[i][k]

\* C7 as claimed: both scrubs remove exactly id, product_id,
\* admin_graphql_api_id, position, created_at, updated_at (and image_id for
\* variants) and keep everything else, for any fields present.
C7_ScrubRemovesIdentityFields ==
    /\ pc = "scrubbed_variants" =>
          RemovesExactly({"id", "product_id", "admin_graphql_api_id", "position",
                          "created_at", "updated_at", "image_id"})
    /\ pc = "scrubbed_options" =>
          RemovesExactly({"id", "product_id", "admin_graphql_api_id", "position",
                          "created_at", "updated_at"})

\* C7 amended: the variant scrub removes exactly id, product_id,
\* admin_graphql_api_id, position, created_at, updated_at and image_id; the
\* option scrub removes exactly id, product_id, admin_graphql_api_id and
\* position (timestamps on an option are kept); both keep every other field
\* with its value and keep the number and order of elements.
C7_ScrubRemovesDropKeys ==
    /\ pc = "scrubbed_variants" =>
          RemovesExactly({"id", "product_id", "admin_graphql_api_id", "position",
                          "created_at", "updated_at", "image_id"})
    /\ pc = "scrubbed_options" =>
          RemovesExactly({"id", "product_id", "admin_graphql_api_id", "position"})

\* two variants scrubbed, the first holding every field
C7_Witness ==
    /\ pc = "scrubbed_variants"
    /\ Len(scrubbed) = 2
    /\ DOMAIN elems.v[1] = AllKeys
    /\ DOMAIN scrubbed[1] = {"name", "price"}
    /\ scrubbed[2] # scrubbed[1]

\* ----------------------------------------- claims on ensure_collection

Returned(h) == h.exc = "none"

Posted(h) == \E k \in 1..Len(h.log) : h.log[k].verb = "POST"

NColl(st) == Len(st.custom) + Len(st.smart)

\* C4: two successive ensure_collection calls with the same title return the
\* same collection id, and the second creates no collection.
C4_EnsureIdempotent ==
    \A k \in 1..(Len(hist) - 1) :
        (hist[k].title = hist[k + 1].title /\ Returned(hist[k]) /\ Returned(hist[k + 1])) =>
            /\ hist[k + 1].value = hist[k].value
            /\ ~Posted(hist[k + 1])
            /\ hist[k + 1].after = hist[k + 1].before

\* a storefront alias, no frontpage collection: the first call created the
\* collection and the second call was made
C4_Witness ==
    /\ Len(hist) >= 2
    /\ hist[1].title = T_HOME_padded
    /\ hist[2].title = T_HOME_padded
    /\ Posted(hist[1])
    /\ NColl(hist[1].after) = NColl(hist[1].before) + 1
    /\ \A i \in 1..Len(hist[1].before.custom) :
          hist[1].before.custom[i].handle.base # Frontpage

\* the custom collections of a store whose handle is "frontpage"
FrontpageOf(st) ==
    {st.custom[i].id : i \in {j \in 1..Len(st.custom) :
        st.custom[j].handle = [base |-> Frontpage, suffix |-> 0]}}

\* C5: with a custom collection of handle "frontpage" in the store,
\* ensure_collection on a storefront alias returns that collection's id,
\* sends the handle probe and no title lookup, and creates nothing.
C5_AliasResolvesToFrontpage ==
    \A k \in 1..Len(hist) :
        (hist[k].title \in {T_Homepage, T_HOME_padded, T_Frontpage}
            /\ FrontpageOf(hist[k].before) # {}) =>
            /\ Returned(hist[k])
            /\ hist[k].value.some
            /\ hist[k].value.v \in FrontpageOf(hist[k].before)
            /\ \A r \in 1..Len(hist[k].log) :
                  hist[k].log[r].verb = "GET" /\ hist[k].log[r].param = "handle"
            /\ Len(hist[k].log) = 1
            /\ hist[k].after = hist[k].before

\* "Homepage" asked for while a smart and a custom collection of that title
\* exist next to the frontpage one
C5_Witness ==
    \E k \in 1..Len(hist) :
        /\ hist[k].title = T_Homepage
        /\ FrontpageOf(hist[k].before) # {}
        /\ \E i \in 1..Len(hist[k].before.smart) : hist[k].before.smart[i].title = T_Homepage
        /\ \E i \in 1..Len(hist[k].before.custom) :
              /\ hist[k].before.custom[i].title = T_Homepage
              /\ hist[k].before.custom[i].id \notin FrontpageOf(hist[k].before)
        /\ Returned(hist[k])

\* ------------------------------------------------------ claims on the run

IsCreation(rq) == rq.verb = "POST" /\ rq.path = "products"

CreationRequested == \E k \in 1..Len(reqlog) : IsCreation(reqlog[k])

\* the batch loop was reached: create_product has been, or is about to be, called
LoopEntered == idx >= 1 \/ pc \in {"loop", "done"}

\* the script has ended after taking up at least one model
LoopOver == pc \in {"done", "crashed"} /\ idx >= 1

CollectionIdsOf(st) ==
    {st.custom[i].id : i \in 1..Len(st.custom)} \cup {st.smart[i].id : i \in 1..Len(st.smart)}

SetupSucceeded ==
    /\ shop_domain # "" /\ access_token # ""
    /\ duplication_enabled =>
          /\ Len(source_identifier) > 0
          /\ template_product.some
          /\ \E i \in 1..Len(store.products) : store.products[i] = template_product.v
    /\ ~(duplication_enabled /\ copy_source_collections) =>
          /\ Len(collection_ids) = 3
          /\ collection_ids[1][1] = T_Homepage
          /\ collection_ids[2][1] = T_Pellicole
          /\ collection_ids[3][1] = T_Decorative
          /\ \A k \in 1..3 : collection_ids[k][2] \in CollectionIdsOf(store)

\* the run ended in its setup: st.stop(), or an exception before the loop
SetupFailed == pc = "stopped" \/ (pc = "crashed" /\ idx = 0)

\* C3: create_product is called, and a product-creation request sent, only
\* after setup fully succeeded (credentials, the template in duplication
\* mode, every default collection resolved unless the template's are
\* reused); a run whose setup fails ends with no product created and no
\* result record.
C3_NoCreationBeforeSetup ==
    /\ (LoopEntered \/ CreationRequested) => SetupSucceeded
    /\ SetupFailed =>
          /\ results = <<>>
          /\ idx = 0
          /\ ~CreationRequested
          /\ \A i \in 1..Len(store.products) : store.products[i] = P_aurora

\* ensure_collection failed with an HTTP error on the third title, after a
\* collection had been created for an earlier one: the run stopped
C3_Witness ==
    /\ pc = "stopped"
    /\ ti = 3
    /\ Len(collection_ids) = 2
    /\ fault.kind = "HTTPError"
    /\ fault.at = Len(reqlog)
    /\ \E k \in 1..Len(reqlog) :
          reqlog[k].verb = "POST" /\ reqlog[k].path = "custom_collections"

ErrorRecords == {k \in 1..Len(results) : results[k].Status = "ERRORE"}

\* the failing request was one of a model's creation or attachment calls
FaultHitLoop ==
    /\ fault.at >= 1 /\ fault.at <= Len(reqlog)
    /\ reqlog[fault.at].verb = "POST"
    /\ reqlog[fault.at].path \in {"products", "collects"}

\* C1: a run over N >= 1 models in which the store answers one request with
\* an API error ends with the loop complete and N result
\* records: one "ERRORE" record with its error detail for the model whose
\* creation or attachment failed with an API error, a success record with a
\* product id for each of the others.
C1_RunYieldsOneRecordPerModel ==
    (LoopOver /\ fault.at > 0 /\ fault.kind = "HTTPError") =>
        /\ pc = "done"
        /\ Len(results) = Len(models)
        /\ \A k \in 1..Len(results) :
              /\ results[k].Modello = models[k].model
              /\ IF k \in ErrorRecords THEN results[k].Errore.some
                 ELSE results[k].ProductID.some
        /\ Cardinality(ErrorRecords) = (IF FaultHitLoop THEN 1 ELSE 0)

\* C2: when a call of a model's creation or attachment fails at the network
\* level, the model gets an error record and the loop goes on to the next
\* model: the run never ends on an uncaught exception.
C2_NetworkFailureRecorded ==
    (LoopOver /\ fault.at > 0 /\ fault.kind = "ConnectionError") =>
        /\ pc = "done"
        /\ uncaught = ""
        /\ Len(results) = Len(models)

\* the creation request the loop owes model k: title and images of the
\* model; in duplication mode the template's body, vendor, product type and
\* tags and its options and variants without their identity fields; in plain
\* mode title, the default description and images only
OwedCreation(rq, k) ==
    /\ IsCreation(rq)
    /\ rq.arg.title = TitlePrefix \o models[k].model
    /\ rq.arg.images = models[k].images
    /\ IF duplication_enabled
       THEN /\ rq.arg.body_html = Some(template_product.v.body_html)
            /\ rq.arg.vendor = Some(template_product.v.vendor)
            /\ rq.arg.product_type = Some(template_product.v.product_type)
            /\ rq.arg.tags = Some(template_product.v.tags)
            /\ Len(rq.arg.options) = Len(template_product.v.options)
            /\ Len(rq.arg.variants) = Len(template_product.v.variants)
            /\ \A i \in 1..Len(rq.arg.options) : "id" \notin DOMAIN rq.arg.options[i]
            /\ \A i \in 1..Len(rq.arg.variants) : "id" \notin DOMAIN rq.arg.variants[i]
       ELSE /\ DOMAIN rq.arg = {"title", "body_html", "images"}
            /\ rq.arg.body_html = Some(DESCRIPTION_HTML)

\* C6: for every model the batch loop has taken up, the product-creation
\* request was sent and carries what the mode asks for (see OwedCreation).
C6_CreationCarriesTemplateFields ==
    \A k \in 1..idx : \E r \in 1..Len(reqlog) : OwedCreation(reqlog[r], k)

\* the requests that sent product pid to the association endpoint
Associations(pid) ==
    {r \in 1..Len(reqlog) : /\ reqlog[r].verb = "POST"
                            /\ reqlog[r].path = "collects"
                            /\ reqlog[r].arg.product_id = pid}

CreationIndexes == {r \in 1..Len(reqlog) : IsCreation(reqlog[r])}

\* the creation request of the k-th model the loop took up
CreationOf(k) ==
    CHOOSE r \in CreationIndexes : Cardinality({q \in CreationIndexes : q <= r}) = k

\* the target collections: the template's snapshotted ids when duplication
\* reuses the source's collections, the resolved default ids otherwise
ClaimedTargets ==
    IF duplication_enabled /\ copy_source_collections
    THEN {source_collection_ids[i] : i \in 1..Len(source_collection_ids)}
    ELSE {collection_ids[i][2] : i \in 1..Len(collection_ids)}

SuccessRecords == {k \in 1..Len(results) : results[k].ProductID.some}

\* C11: once a success record stands for a model, its product was sent to
\* the association endpoint exactly once for each target collection and for
\* no other collection, and every one of those requests lies after the
\* model's creation request and before the next creation request.
C11_AttachedOncePerTarget ==
    \A k \in SuccessRecords :
        /\ \A c \in ClaimedTargets :
              Cardinality({r \in Associations(results[k].ProductID.v) :
                              reqlog[r].arg.collection_id = c}) = 1
        /\ \A r \in Associations(results[k].ProductID.v) :
              reqlog[r].arg.collection_id \in ClaimedTargets
        /\ Cardinality(CreationIndexes) >= k
        /\ \A r \in Associations(results[k].ProductID.v) :
              /\ CreationOf(k) < r
              /\ \A q \in CreationIndexes : q > CreationOf(k) => r < q

\* C11's case: a success record stands and its product was attached to a
\* target collection
C11_Case ==
    \E k \in SuccessRecords :
        /\ ClaimedTargets # {}
        /\ Associations(results[k].ProductID.v) # {}

\* no run of the script ever appends a success record
NoSuccessRecord == SuccessRecords = {}

====
